---- MODULE Spec2Model ----
(***************************************************************************)
(* Model of src/App.tsx: the XLSX Data Viewer component.                   *)
(*                                                                         *)
(* The component state is the six useState cells (data, filteredData,      *)
(* searchTerm, error, fileName, isLoading) and the value of the file       *)
(* input element.  The environment is the set of FileReader reads that     *)
(* have been started and have not yet delivered onload / onerror, and the  *)
(* useEffect that React runs after a render in which data or searchTerm    *)
(* changed.                                                                *)
(*                                                                         *)
(* React runs a scheduled effect before it handles the next event, so the  *)
(* handlers are enabled only when no effect is waiting; the render between *)
(* a handler and its effect (filteredData not yet recomputed) is a state   *)
(* of the model.                                                           *)
(*                                                                         *)
(* Text is a sequence of one-character strings so that toLowerCase and     *)
(* String.prototype.includes are computed, not assumed.                    *)
(***************************************************************************)
EXTENDS Integers, Sequences, FiniteSets, TLC

VARIABLES data, filteredData, searchTerm, error, fileName, isLoading,
          fileInput, pending, effectPending, hist

vars == <<data, filteredData, searchTerm, error, fileName, isLoading,
          fileInput, pending, effectPending, hist>>

----------------------------------------------------------------------------
(* Bounds of the model. *)

\* reads that may be in flight at once
MaxPending == 2
\* length of a typed search text
MaxTermLen == 2
\* rows of the row sets the filter is applied to in FilterSpec
MaxRows == 2

----------------------------------------------------------------------------
(* Values of spreadsheet cells: a string, a number, or undefined (a key    *)
(* the decoded row does not have).                                         *)

Undefined == [t |-> "undefined", s |-> <<>>, n |-> 0]
Str(s) == [t |-> "string", s |-> s, n |-> 0]
Num(n) == [t |-> "number", s |-> <<>>, n |-> n]

Null == "null"

expectedHeaders == <<"NTE", "Municipio", "Cod.SEC", "Nome Escola", "Valor">>

Range(s) == {s[i] : i \in 1..Len(s)}

ErrEmpty == "The selected file is empty or in an unsupported format."
ErrMissing == "The file is missing required columns. Please ensure it has: NTE, Municipio, Cod.SEC, Nome Escola, Valor."
ErrParse == "Failed to parse the XLSX file. Please check the file format and try again."
ErrRead == "Failed to read the file."

----------------------------------------------------------------------------
(* JavaScript string primitives used by filterData. *)

UpperLetters == <<"A", "B", "C", "D", "E", "F", "G", "H", "I", "J", "K", "L", "M",
                  "N", "O", "P", "Q", "R", "S", "T", "U", "V", "W", "X", "Y", "Z">>
LowerLetters == <<"a", "b", "c", "d", "e", "f", "g", "h", "i", "j", "k", "l", "m",
                  "n", "o", "p", "q", "r", "s", "t", "u", "v", "w", "x", "y", "z">>

\* one character of String.prototype.toLowerCase
lowerChar(c) ==
    IF \E i \in 1..Len(UpperLetters) : UpperLetters[i] = c
    THEN LowerLetters[CHOOSE i \in 1..Len(UpperLetters) : UpperLetters[i] = c]
    ELSE c

\* String.prototype.toLowerCase
toLowerCase(s) == [i \in 1..Len(s) |-> lowerChar(s[i])]

Digits == <<"0", "1", "2", "3", "4", "5", "6", "7", "8", "9">>

\* Number.prototype.toString for a non-negative integer
RECURSIVE numToString(_)
numToString(n) ==
    IF n < 10 THEN <<Digits[n + 1]>>
    ELSE Append(numToString(n \div 10), Digits[(n % 10) + 1])

\* value.toString() of a defined cell value
toString(v) == IF v.t = "number" THEN numToString(v.n) ELSE v.s

\* does needle occur in hay at 0-based position k
RECURSIVE matchAt(_, _, _, _)
matchAt(hay, needle, k, j) ==
    IF j > Len(needle) THEN TRUE
    ELSE IF hay[k + j] # needle[j] THEN FALSE
    ELSE matchAt(hay, needle, k, j + 1)

\* String.prototype.includes: scan the start positions left to right
RECURSIVE includesFrom(_, _, _)
includesFrom(hay, needle, k) ==
    IF k + Len(needle) > Len(hay) THEN FALSE
    ELSE IF matchAt(hay, needle, k, 1) THEN TRUE
    ELSE includesFrom(hay, needle, k + 1)

includes(hay, needle) == includesFrom(hay, needle, 0)

----------------------------------------------------------------------------
(* filterData (lines 76-87). *)

\* the filter callback with Cod.SEC compared as typed, without lower-casing
matchesItem_caseSensitive(item, lowercasedFilter) ==
    IF item["Cod.SEC"].t = "undefined" THEN FALSE
    ELSE includes(toString(item["Cod.SEC"]), lowercasedFilter)

\* the callback of data.filter: item['Cod.SEC']?.toString().toLowerCase()
\* .includes(lowercasedFilter); the optional chain yields undefined (falsy)
\* for a row without the field
matchesItem(item, lowercasedFilter) ==
    IF item["Cod.SEC"].t = "undefined" THEN FALSE
    ELSE includes(toLowerCase(toString(item["Cod.SEC"])), lowercasedFilter)

\* Array.prototype.filter with the callback above
RECURSIVE filterRows(_, _)
filterRows(rows, lowercasedFilter) ==
    IF rows = <<>> THEN <<>>
    ELSE IF matchesItem(rows[1], lowercasedFilter)
         THEN <<rows[1]>> \o filterRows(Tail(rows), lowercasedFilter)
         ELSE filterRows(Tail(rows), lowercasedFilter)

\* a filter whose loop starts at the second row
filterData_skipFirst(rows, term) ==
    IF term = <<>> THEN rows
    ELSE IF rows = <<>> THEN <<>>
    ELSE filterRows(Tail(rows), toLowerCase(term))

\* the value filterData passes to setFilteredData
filterData(rows, term) ==
    IF term = <<>> THEN rows
    ELSE filterRows(rows, toLowerCase(term))

----------------------------------------------------------------------------
(* Decoded files.  A decoded row is a function from the five expected      *)
(* headers and one extra column to cell values; Undefined marks a key the  *)
(* row object does not have (sheet_to_json omits blank cells).             *)

ExtraHeader == "Obs"
JsonKeys == Range(expectedHeaders) \cup {ExtraHeader}

\* Object.keys(row)
ObjectKeys(row) == {k \in JsonKeys : row[k].t # "undefined"}

JsonRow(nte, mun, cod, nome, valor, extra) ==
    [k \in JsonKeys |->
        CASE k = "NTE" -> nte
          [] k = "Municipio" -> mun
          [] k = "Cod.SEC" -> cod
          [] k = "Nome Escola" -> nome
          [] k = "Valor" -> valor
          [] OTHER -> extra]

\* a row with every expected column filled in
FullRow(cod) ==
    JsonRow(Num(1), Str(<<"a">>), cod, Str(<<"A">>), Num(1), Str(<<"a">>))

\* row with the cell under header h blank
Without(row, h) == [row EXCEPT ![h] = Undefined]

NoFile == [name |-> "", kind |-> "none", json |-> <<>>]

ValidFiles ==
    { [name |-> "one.xlsx", kind |-> "json",
       json |-> <<FullRow(Str(<<"a", "1">>))>>],
      [name |-> "two.xlsx", kind |-> "json",
       json |-> <<FullRow(Str(<<"A">>)), Without(FullRow(Num(11)), ExtraHeader)>>],
      [name |-> "gap.xlsx", kind |-> "json",
       json |-> <<FullRow(Num(1)), Without(FullRow(Str(<<"a">>)), "Cod.SEC")>>] }

MissingName(h) ==
    CASE h = "NTE" -> "no-nte.xlsx"
      [] h = "Municipio" -> "no-municipio.xlsx"
      [] h = "Cod.SEC" -> "no-codsec.xlsx"
      [] h = "Nome Escola" -> "no-escola.xlsx"
      [] h = "Valor" -> "no-valor.xlsx"

\* files whose sheet has no column h at all
MissingFiles ==
    { [name |-> MissingName(h), kind |-> "json",
       json |-> <<Without(FullRow(Str(<<"a">>)), h)>>] : h \in Range(expectedHeaders) }

\* a sheet with the five columns whose first data row has a blank Valor cell
BlankFirstFile ==
    [name |-> "blank-first.xlsx", kind |-> "json",
     json |-> <<Without(FullRow(Str(<<"a">>)), "Valor"), FullRow(Str(<<"A", "1">>))>>]

EmptyFile == [name |-> "empty.xlsx", kind |-> "json", json |-> <<>>]
UnparseableFile == [name |-> "broken.xlsx", kind |-> "throws", json |-> <<>>]
UnreadableFile == [name |-> "locked.xlsx", kind |-> "unreadable", json |-> <<>>]

Files == ValidFiles \cup MissingFiles
           \cup {BlankFirstFile, EmptyFile, UnparseableFile, UnreadableFile}

Chars == {"A", "1"}

RECURSIVE StringsUpTo(_)
StringsUpTo(n) ==
    IF n = 0 THEN {<<>>}
    ELSE LET shorter == StringsUpTo(n - 1)
         IN shorter \cup {Append(s, c) : s \in shorter, c \in Chars}

SearchTerms == StringsUpTo(MaxTermLen)

----------------------------------------------------------------------------
(* reader.onload (lines 28-67), as a function of the decoded file. *)

\* expectedHeaders.every(header => headers.includes(header)), line 43
hasAllHeaders(headers) == \A i \in 1..Len(expectedHeaders) : expectedHeaders[i] \in headers

\* jsonData.map(row => ({...})), lines 52-58
typedRow(row) == [h \in Range(expectedHeaders) |-> row[h]]
typedData(jsonData) == [i \in 1..Len(jsonData) |-> typedRow(jsonData[i])]

\* which branch of onload a decoded file takes
onloadBranch(f) ==
    IF f.kind = "throws" THEN "catch"
    ELSE IF Len(f.json) = 0 THEN "empty"
    ELSE IF ~hasAllHeaders(ObjectKeys(f.json[1])) THEN "missing"
    ELSE "ok"

PendingCount == LET RECURSIVE sum(_)
                    sum(S) == IF S = {} THEN 0
                              ELSE LET x == CHOOSE x \in S : TRUE
                                   IN pending[x] + sum(S \ {x})
                IN sum(Files)

----------------------------------------------------------------------------
(* State machine.  hist is a history variable: the handler that ran last  *)
(* and the file it was about, the file selected last (NoFile after a       *)
(* clear), whether a read was still in flight when that file was           *)
(* selected, and what clearFile found when it ran.                         *)

NoBefore == [rows |-> 0, term |-> 0]

Init ==
    /\ data = <<>>
    /\ filteredData = <<>>
    /\ searchTerm = <<>>
    /\ error = Null
    /\ fileName = Null
    /\ isLoading = FALSE
    /\ fileInput = ""
    /\ pending = [f \in Files |-> 0]
    /\ effectPending = TRUE
    /\ hist = [op |-> "mount", file |-> NoFile, sel |-> NoFile, overlap |-> FALSE,
               before |-> NoBefore]

\* useEffect(() => filterData(), [searchTerm, data, filterData]), lines 89-91
FilterEffect ==
    /\ effectPending
    /\ filteredData' = filterData(data, searchTerm)
    /\ effectPending' = FALSE
    /\ UNCHANGED <<data, searchTerm, error, fileName, isLoading, fileInput, pending, hist>>

\* handleFileChange, lines 18-27 and 73.  The change event fires when the
\* selection of the input differs from its current value; f = NoFile is
\* the event without a file (line 20).
handleFileChange(f) ==
    /\ ~effectPending
    /\ IF f = NoFile
       THEN UNCHANGED vars
       ELSE /\ f.name # fileInput
            /\ PendingCount < MaxPending
            /\ isLoading' = TRUE
            /\ error' = Null
            /\ fileName' = f.name
            /\ data' = <<>>
            /\ fileInput' = f.name
            /\ pending' = [pending EXCEPT ![f] = @ + 1]
            /\ effectPending' = TRUE
            /\ hist' = [op |-> "select", file |-> f, sel |-> f,
                        overlap |-> PendingCount > 0, before |-> NoBefore]
            /\ UNCHANGED <<filteredData, searchTerm>>

\* reader.onload, lines 28-67
onload(f) ==
    /\ ~effectPending
    /\ pending[f] > 0
    /\ f.kind # "unreadable"
    /\ pending' = [pending EXCEPT ![f] = @ - 1]
    /\ hist' = [hist EXCEPT !.op = "onload", !.file = f, !.before = NoBefore]
    /\ isLoading' = FALSE
    /\ CASE onloadBranch(f) = "empty" ->
              /\ error' = ErrEmpty
              /\ UNCHANGED <<data, fileName, effectPending>>
         [] onloadBranch(f) = "missing" ->
              /\ error' = ErrMissing
              /\ fileName' = Null
              /\ UNCHANGED <<data, effectPending>>
         [] onloadBranch(f) = "catch" ->
              /\ error' = ErrParse
              /\ fileName' = Null
              /\ UNCHANGED <<data, effectPending>>
         [] OTHER ->
              /\ data' = typedData(f.json)
              /\ effectPending' = TRUE
              /\ UNCHANGED <<error, fileName>>
    /\ UNCHANGED <<filteredData, searchTerm, fileInput>>

\* reader.onerror, lines 68-72
onerror(f) ==
    /\ ~effectPending
    /\ pending[f] > 0
    /\ f.kind = "unreadable"
    /\ pending' = [pending EXCEPT ![f] = @ - 1]
    /\ hist' = [hist EXCEPT !.op = "onerror", !.file = f, !.before = NoBefore]
    /\ error' = ErrRead
    /\ isLoading' = FALSE
    /\ fileName' = Null
    /\ UNCHANGED <<data, filteredData, searchTerm, fileInput, effectPending>>

\* onChange of the search input, line 144; the input is disabled while
\* data is empty, line 146
setSearchTerm(s) ==
    /\ ~effectPending
    /\ Len(data) # 0
    /\ searchTerm' = s
    /\ effectPending' = (s # searchTerm)
    /\ hist' = [hist EXCEPT !.op = "search", !.file = NoFile, !.before = NoBefore]
    /\ UNCHANGED <<data, filteredData, error, fileName, isLoading, fileInput, pending>>

\* clearFile without the reset of the search text
clearFile_keepSearch ==
    /\ ~effectPending
    /\ fileName # Null
    /\ data' = <<>>
    /\ filteredData' = <<>>
    /\ fileName' = Null
    /\ error' = Null
    /\ fileInput' = ""
    /\ effectPending' = TRUE
    /\ hist' = [op |-> "clear", file |-> NoFile, sel |-> NoFile, overlap |-> FALSE,
                before |-> [rows |-> Len(data), term |-> Len(searchTerm)]]
    /\ UNCHANGED <<searchTerm, isLoading, pending>>

\* clearFile, lines 93-102; its button is rendered only while fileName is
\* set, lines 123-129
clearFile ==
    /\ ~effectPending
    /\ fileName # Null
    /\ data' = <<>>
    /\ filteredData' = <<>>
    /\ searchTerm' = <<>>
    /\ fileName' = Null
    /\ error' = Null
    /\ fileInput' = ""
    /\ effectPending' = TRUE
    /\ hist' = [op |-> "clear", file |-> NoFile, sel |-> NoFile, overlap |-> FALSE,
                before |-> [rows |-> Len(data), term |-> Len(searchTerm)]]
    /\ UNCHANGED <<isLoading, pending>>

Next ==
    \/ FilterEffect
    \/ \E f \in Files \cup {NoFile} : handleFileChange(f)
    \/ \E f \in Files : onload(f)
    \/ \E f \in Files : onerror(f)
    \/ \E s \in SearchTerms : setSearchTerm(s)
    \/ clearFile

Spec == Init /\ [][Next]_vars
----------------------------------------------------------------------------
(* The filter on its own.  FilterInit is the state right after onload has  *)
(* stored the rows of a valid file (the effect not yet run), for every     *)
(* row set up to MaxRows rows and every search text left over from an      *)
(* earlier file; the steps are the effect and the search input.            *)

CodValues == {Undefined, Str(<<"A", "1">>), Str(<<"1", "a">>), Num(11)}

BaseTyped == typedRow(FullRow(Str(<<"a">>)))

\* the other four columns, each varied on its own
OtherColumns == Range(expectedHeaders) \ {"Cod.SEC"}
OtherVariants == {BaseTyped} \cup {[BaseTyped EXCEPT ![h] = Str(<<"a", "1">>)] : h \in OtherColumns}

TypedRows == {[r EXCEPT !["Cod.SEC"] = c] : r \in OtherVariants, c \in CodValues}

RECURSIVE RowSeqsOfLen(_)
RowSeqsOfLen(n) ==
    IF n = 1 THEN {<<r>> : r \in {x \in TypedRows : hasAllHeaders({h \in DOMAIN x : x[h].t # "undefined"})}}
    ELSE {Append(q, r) : q \in RowSeqsOfLen(n - 1), r \in TypedRows}

RowSets == UNION {RowSeqsOfLen(n) : n \in 1..MaxRows}

FilterInit ==
    /\ data \in RowSets
    /\ filteredData = <<>>
    /\ searchTerm \in SearchTerms
    /\ error = Null
    /\ fileName = "sheet.xlsx"
    /\ isLoading = FALSE
    /\ fileInput = "sheet.xlsx"
    /\ pending = [f \in Files |-> 0]
    /\ effectPending = TRUE
    /\ hist = [op |-> "onload", file |-> NoFile, sel |-> NoFile, overlap |-> FALSE,
               before |-> NoBefore]

FilterNext ==
    \/ FilterEffect
    \/ \E s \in SearchTerms : setSearchTerm(s)

FilterSpec == FilterInit /\ [][FilterNext]_vars

----------------------------------------------------------------------------
(* Properties. *)

\* a required column the sheet does not have: no decoded row has the key
ColumnMissing(f) ==
    \E h \in Range(expectedHeaders) : \A i \in 1..Len(f.json) : h \notin ObjectKeys(f.json[i])

\* the sheet has all five required columns
ContainsAllColumns(f) ==
    \A h \in Range(expectedHeaders) : \E i \in 1..Len(f.json) : h \in ObjectKeys(f.json[i])

\* C1: after onload of a file that decodes to at least one row and lacks a
\* required column, error is the missing-columns message and data is empty.
C1_MissingColumnsLeavesDataEmpty ==
    (hist.op = "onload" /\ hist.file.kind = "json" /\ Len(hist.file.json) >= 1
        /\ ColumnMissing(hist.file))
    => (error = ErrMissing /\ data = <<>>)

\* C2: after onload of a file with the five required columns and n >= 1 rows,
\* once the effect has run with empty search text, data has n rows,
\* filteredData equals data and no error is set.
C2_ValidFileShowsAllRows ==
    (hist.op = "onload" /\ hist.file.kind = "json" /\ Len(hist.file.json) >= 1
        /\ ContainsAllColumns(hist.file) /\ ~effectPending /\ searchTerm = <<>>)
    => (Len(data) = Len(hist.file.json) /\ filteredData = data /\ error = Null)

\* text contains term somewhere, letters compared without regard to case
ContainsIgnoringCase(text, term) ==
    \E k \in 0..(Len(text) - Len(term)) :
        \A j \in 1..Len(term) : lowerChar(text[k + j]) = lowerChar(term[j])

\* the row is one the search text selects
Selected(row, term) ==
    \/ term = <<>>
    \/ /\ row["Cod.SEC"].t # "undefined"
       /\ ContainsIgnoringCase(toString(row["Cod.SEC"]), term)

SelectedIdx == {i \in 1..Len(data) : Selected(data[i], searchTerm)}

\* the k-th smallest index of S
KthOf(S, k) == CHOOSE i \in S : Cardinality({j \in S : j <= i}) = k

\* C3: once the effect has run, filteredData is the rows of data, in order,
\* whose Cod.SEC text contains searchTerm ignoring case; all of data when
\* searchTerm is empty; rows with the same Cod.SEC are selected alike
\* whatever their other fields hold.
C3_FilterIsCodSecSubstringMatch ==
    ~effectPending =>
        /\ Len(filteredData) = Cardinality(SelectedIdx)
        /\ \A k \in 1..Len(filteredData) : filteredData[k] = data[KthOf(SelectedIdx, k)]
        /\ (searchTerm = <<>> => filteredData = data)
        /\ \A i, j \in 1..Len(data) :
              data[i]["Cod.SEC"] = data[j]["Cod.SEC"]
              => ((data[i] \in Range(filteredData)) <=> (data[j] \in Range(filteredData)))

\* the effect has run with an upper-case search letter over two rows: one
\* whose Cod.SEC has the letter in lower case and is kept, one whose NTE
\* has the letter but whose Cod.SEC does not and is dropped
C3_Witness ==
    /\ ~effectPending
    /\ searchTerm = <<"A">>
    /\ Len(data) = 2
    /\ data[1]["Cod.SEC"] = Str(<<"1", "a">>)
    /\ data[2]["Cod.SEC"] = Num(11)
    /\ data[2]["NTE"] = Str(<<"a", "1">>)
    /\ filteredData = <<data[1]>>

\* C4: after clearFile, data and filteredData are empty, searchTerm is the
\* empty string, fileName and error are null: the values of Init.
C4_ClearFileResets ==
    hist.op = "clear" =>
        /\ data = <<>>
        /\ filteredData = <<>>
        /\ searchTerm = <<>>
        /\ fileName = Null
        /\ error = Null

\* clearFile has run on a loaded, searched table and the effect has followed
C4_Witness ==
    /\ hist.op = "clear"
    /\ hist.before.rows > 0
    /\ hist.before.term > 0
    /\ ~effectPending

\* the three error conditions
ErrorCondition(f) ==
    \/ f.kind \in {"throws", "unreadable"}
    \/ (f.kind = "json" /\ (Len(f.json) = 0 \/ ColumnMissing(f)))

\* C5: after the callback of a read that hit one of the three error
\* conditions, error is set, data is empty, fileName is null and isLoading
\* is false.
C5_ErrorsResetToNoFile ==
    (hist.op \in {"onload", "onerror"} /\ ErrorCondition(hist.file))
    => (error # Null /\ data = <<>> /\ fileName = Null /\ isLoading = FALSE)

\* C6: filtering the filtered rows again by the same search text gives the
\* same rows.
C6_FilterIdempotent ==
    ~effectPending => filterData(filteredData, searchTerm) = filteredData

\* the effect has run with a search text that keeps some rows and drops others
C6_Witness ==
    /\ ~effectPending
    /\ searchTerm # <<>>
    /\ Len(filteredData) > 0
    /\ Len(filteredData) < Len(data)

\* C7: a non-null error and a non-empty data never hold at the same time.
C7_NoErrorWithRows == ~(error # Null /\ data # <<>>)

\* what a read of f alone leaves in data
RowsOf(f) ==
    IF f.kind = "json" /\ onloadBranch(f) = "ok" THEN typedData(f.json) ELSE <<>>

\* C8: a file selected while an earlier read was in flight: once every read
\* has delivered its callback and the effect has run, data is that file's
\* rows (empty if it is invalid) and fileName is its name or null.
C8_LastSelectedFileWins ==
    (hist.overlap /\ PendingCount = 0 /\ ~effectPending)
    => (data = RowsOf(hist.sel) /\ fileName \in {hist.sel.name, Null})

\* C9: between clearFile and the next selection data is empty, fileName is
\* null and no error is set.
C9_ClearedStaysCleared ==
    (hist.sel = NoFile /\ hist.op # "mount")
    => (data = <<>> /\ fileName = Null /\ error = Null)

\* C10: isLoading is true exactly when a started read has not yet delivered
\* its callback.
C10_LoadingIffReadPending == (isLoading <=> PendingCount > 0)

====
